---- MODULE Spec2Model ----
(***************************************************************************)
(* Host dispatcher of electron-ipc-proxy (src/src/server.ts): the          *)
(* registration table, one ProxyServerHandler per registration with its    *)
(* subscription table, the transport listeners, and the messages the host  *)
(* sends.  The target object is the ProxiedClass of src/test/test.ts.      *)
(*                                                                         *)
(* One action is one macrotask of the host's event loop together with the  *)
(* microtasks it queues: a promise that is already settled when the        *)
(* request handler returns has its .then/.catch callback run before any    *)
(* other message, timer or event is processed.                             *)
(***************************************************************************)
EXTENDS Naturals, Sequences, FiniteSets

(* ------------------------------ bounds --------------------------------- *)

\* requests delivered to the host over the whole run
MaxRequests == 3
\* the same, in the traffic mixes of SpecCalls, SpecStreams, SpecHot, SpecChannels
MaxCallRequests == 2
MaxStreamRequests == 2
MaxHotRequests == 3
MaxChannelRequests == 1
\* the same, in the traffic mixes of SpecReuse, SpecPair and SpecSenders
MaxReuseRequests == 3
MaxPairRequests == 2
MaxSenderRequests == 3
\* registerProxy calls that succeed over the whole run
MaxHandlers == 2
\* the same, in the traffic mixes of SpecStreams and SpecHot
MaxStreamHandlers == 1
\* values one interval() subscription emits before the model stops its timer
MaxTicks == 2

(* ------------------------------ inputs --------------------------------- *)

Channels == {"c1", "c2"}
Senders == {"A", "B"}
SubIds == {"x", "y"}

\* registrations[channel] when nothing is registered (undefined or null)
NoHandler == 0

(* ----------------------------- JS values ------------------------------- *)

Undefined == [k |-> "undefined"]
Str(s) == [k |-> "string", v |-> s]
Num(n) == [k |-> "number", v |-> n]
\* new Error(message)
Err(name, message) == [k |-> "error", message |-> message, name |-> name]
\* a promise: state is "resolved", "rejected" or "pending" (settled later with v)
Promise(state, v) == [k |-> "promise", state |-> state, v |-> v]
\* an Observable: the values it emits to a subscriber, in order, and how it
\* ends: "complete", "error" (with err) or "never" (a timer that keeps going)
Obs(timing, values, end, err) ==
    [k |-> "observable", end |-> end, err |-> err, timing |-> timing, values |-> values]
\* a function value: body names the member's code, method is TRUE for a
\* class method (dynamic this) and FALSE for an arrow-function field
Fn(body, method) == [k |-> "function", body |-> body, method |-> method]

(* ------------------------ the target object ---------------------------- *)

\* the receiver (this) of a call: the target object, or undefined
ThisTarget == "target"
ThisUndefined == "undefined"

\* interval(period): 0, 1, 2, ... one value per timer tick, never completing
Interval == Obs("timer", [i \in 1..MaxTicks |-> i - 1], "never", Undefined)
\* of(...args): the arguments, synchronously on subscribe, then complete
Of(args) == Obs("sync", args, "complete", Undefined)
\* throwError(error): errors synchronously on subscribe
ThrowError(error) == Obs("sync", <<>>, "error", error)

\* the own properties of a ProxiedClass instance and the methods and
\* accessors of its prototype
TargetKeys ==
    {"stringMemberSync", "stringMemberAsync", "stringGetter", "throwErrorSync",
     "throwErrorAsync", "addSync", "addAsync", "returnStringMember", "respondAfter",
     "observableProp", "observableHot", "observableError", "makeObservable",
     "makeObservableHot", "makeObservableError", "returnObservableProp",
     "privateProperty"}

\* receiver[propKey] for receiver = the target: a missing key reads as
\* undefined, the accessor stringGetter runs with this = the target
TargetGet(propKey) ==
    CASE propKey = "stringMemberSync" -> Str("a string")
      [] propKey = "stringMemberAsync" -> Promise("resolved", Str("a string promise"))
      [] propKey = "stringGetter" -> Str("a string")
      [] propKey \in {"throwErrorSync", "throwErrorAsync", "returnStringMember"} ->
            Fn(propKey, TRUE)
      [] propKey \in {"addSync", "addAsync", "respondAfter", "makeObservable",
                      "makeObservableHot", "makeObservableError",
                      "returnObservableProp"} ->
            Fn(propKey, FALSE)
      [] propKey = "observableProp" -> Of(<<1, 2, 3>>)
      [] propKey = "observableHot" -> Interval
      [] propKey = "observableError" -> ThrowError(Err("Error", "error on stream"))
      [] propKey = "privateProperty" -> Num(42)
      [] OTHER -> Undefined

\* how a synchronous piece of code ends
Return(v) == [k |-> "return", v |-> v]
Throw(e) == [k |-> "throw", v |-> e]

\* func.call(receiver, ...args) for the function members of ProxiedClass.
\* An arrow-function field reads the instance it was created in; a method
\* reads the receiver of the call, and module code is strict, so a method
\* that reads this.stringMemberSync with no receiver throws a TypeError.
Call(func, receiver, args) ==
    CASE func.body = "throwErrorSync" -> Throw(Err("Error", "an error"))
      [] func.body = "throwErrorAsync" ->
            Return(Promise("rejected", Err("Error", "a rejection")))
      [] func.body = "addSync" -> Return(Num(args[1] + args[2]))
      [] func.body = "addAsync" -> Return(Promise("resolved", Num(args[1] + args[2])))
      [] func.body = "returnStringMember" ->
            IF receiver = ThisTarget
            THEN Return(TargetGet("stringMemberSync"))
            ELSE Throw(Err("TypeError",
                           "Cannot read property 'stringMemberSync' of undefined"))
      [] func.body = "respondAfter" -> Return(Promise("pending", Undefined))
      [] func.body = "makeObservable" -> Return(Of(args))
      [] func.body = "makeObservableHot" -> Return(Interval)
      [] func.body = "makeObservableError" ->
            Return(ThrowError(Err("Error", "error on stream")))
      [] func.body = "returnObservableProp" -> Return(TargetGet("observableProp"))
      [] OTHER -> Return(Undefined)

(* --------------------------- server.ts helpers ------------------------- *)

\* JavaScript truthiness of the values the target holds
Truthy(value) ==
    CASE value.k = "undefined" -> FALSE
      [] value.k = "string" -> value.v # ""
      [] value.k = "number" -> value.v # 0
      [] OTHER -> TRUE

isFunction(value) == Truthy(value) /\ value.k = "function"

\* value && typeof value.subscribe === 'function'
isObservable(value) == Truthy(value) /\ value.k = "observable"

\* Errio.stringify(error): the error's name and message as serialized text
\* (the stack is not modelled); not the error object itself
ErrioStringify(error) ==
    [k |-> "json", message |-> error.message, name |-> error.name]

\* the promise an async function returns: a throw rejects it, a returned
\* promise is adopted, any other returned value resolves it
AsyncResult(outcome) ==
    CASE outcome.k = "throw" -> Promise("rejected", outcome.v)
      [] outcome.v.k = "promise" -> outcome.v
      [] OTHER -> Promise("resolved", outcome.v)

(* ------------------------------- state --------------------------------- *)

VARIABLES
    registrations,      \* channel -> the ProxyServerHandler registered on it, or NoHandler
    listeners,          \* channel -> the handlers whose listener transport.on installed
    subscriptions,      \* handler -> its subscription table: subscriptionId -> Subscription
    subs,               \* the Subscription objects obs.subscribe has returned so far
    destroyedListeners, \* sender -> the <<handler, subscriptionId>> of its once('destroyed') listeners
    alive,              \* sender -> it has not emitted 'destroyed'
    calls,              \* the requests delivered so far; a request's index is its correlationId
    replies,            \* correlationId -> the messages sent to that address
    pushes,             \* sender, subscriptionId -> the messages sent to that sender at that address
    unregisterFns,      \* the functions registerProxy has returned: <<channel, handler created>>
    thrown              \* what the step just taken threw to its caller, or Undefined

vars == <<registrations, listeners, subscriptions, subs, destroyedListeners, alive,
          calls, replies, pushes, unregisterFns, thrown>>

Handlers == 1..Len(subscriptions)

\* the requests a client stub sends for the members of ProxiedClass
GetRequest(propKey) ==
    [type |-> "Get", propKey |-> propKey, args |-> <<>>, subscriptionId |-> ""]
ApplyRequest(propKey, args) ==
    [type |-> "Apply", propKey |-> propKey, args |-> args, subscriptionId |-> ""]
SubscribeRequest(propKey, args, subscriptionId) ==
    [type |-> "Subscribe", propKey |-> propKey, args |-> args,
     subscriptionId |-> subscriptionId]
UnsubscribeRequest(subscriptionId) ==
    [type |-> "Unsubscribe", propKey |-> "", args |-> <<>>,
     subscriptionId |-> subscriptionId]

GetRequests ==
    {GetRequest(p) : p \in {"stringMemberSync", "stringMemberAsync", "stringGetter"}}
ApplyRequests ==
    {ApplyRequest("addSync", <<4, 5>>), ApplyRequest("addAsync", <<4, 7>>),
     ApplyRequest("throwErrorSync", <<>>), ApplyRequest("throwErrorAsync", <<>>),
     ApplyRequest("returnStringMember", <<>>), ApplyRequest("respondAfter", <<200>>),
     ApplyRequest("missingFunction", <<>>), ApplyRequest("stringMemberSync", <<>>)}
SubscribeRequests ==
    {SubscribeRequest(p, <<>>, id) :
        p \in {"observableProp", "observableError", "observableHot", "stringMemberSync"},
        id \in SubIds}
    \cup {SubscribeRequest("makeObservable", <<1, 2>>, id) : id \in SubIds}
UnsubscribeRequests == {UnsubscribeRequest(id) : id \in SubIds}
Requests == GetRequests \cup ApplyRequests \cup SubscribeRequests \cup UnsubscribeRequests

Init ==
    /\ registrations = [c \in Channels |-> NoHandler]
    /\ listeners = [c \in Channels |-> {}]
    /\ subscriptions = <<>>
    /\ subs = <<>>
    /\ destroyedListeners = [s \in Senders |-> {}]
    /\ alive = [s \in Senders |-> TRUE]
    /\ calls = <<>>
    /\ replies = <<>>
    /\ pushes = [s \in Senders |-> [id \in SubIds |-> <<>>]]
    /\ unregisterFns = {}
    /\ thrown = Undefined

(* ------------------------ registerProxy / unregister ------------------- *)

\* registerProxy without the check of registrations[channel]
registerProxyOverwrite(channel) ==
    LET server == Len(subscriptions) + 1 IN
    /\ subscriptions' = Append(subscriptions, << >>)
    /\ registrations' = [registrations EXCEPT ![channel] = server]
    /\ listeners' = [listeners EXCEPT ![channel] = @ \cup {server}]
    /\ unregisterFns' = unregisterFns \cup {<<channel, server>>}
    /\ thrown' = Undefined

\* registerProxy(transport, target, descriptor) with descriptor.channel = channel
registerProxy(channel) ==
    IF registrations[channel] # NoHandler
    THEN /\ thrown' = Err("Error", "Proxy object has already been registered on channel "
                                   \o channel)
         /\ UNCHANGED <<registrations, listeners, subscriptions, unregisterFns>>
    ELSE LET server == Len(subscriptions) + 1 IN
         /\ subscriptions' = Append(subscriptions, << >>)
         /\ registrations' = [registrations EXCEPT ![channel] = server]
         /\ listeners' = [listeners EXCEPT ![channel] = @ \cup {server}]
         /\ unregisterFns' = unregisterFns \cup {<<channel, server>>}
         /\ thrown' = Undefined

Register(channel) ==
    /\ registerProxy(channel)
    /\ UNCHANGED <<subs, destroyedListeners, alive, calls, replies, pushes>>

\* the Subscription objects with unsubscribe() called on each of ids
Unsubscribed(ss, ids) ==
    [i \in DOMAIN ss |-> IF i \in ids THEN [ss[i] EXCEPT !.closed = TRUE] ELSE ss[i]]

\* unsubscribeAll that forgets the Subscriptions without unsubscribing them
unsubscribeAllForget(server) ==
    /\ subs' = subs
    /\ subscriptions' = [subscriptions EXCEPT ![server] = << >>]

\* unsubscribeAll over one subscription table that all handlers share
unsubscribeAllShared(server) ==
    /\ subs' = Unsubscribed(subs, DOMAIN subs)
    /\ subscriptions' = [handler \in DOMAIN subscriptions |-> << >>]

\* ProxyServerHandler.unsubscribeAll() on handler server
unsubscribeAll(server) ==
    /\ subs' = Unsubscribed(subs, {subscriptions[server][id] :
                                      id \in DOMAIN subscriptions[server]})
    /\ subscriptions' = [subscriptions EXCEPT ![server] = << >>]

\* unregisterProxy that returns quietly when nothing is registered
unregisterProxyQuiet(channel) ==
    /\ listeners' = [listeners EXCEPT ![channel] = {}]
    /\ LET server == registrations[channel] IN
       IF server = NoHandler
       THEN /\ thrown' = Undefined
            /\ UNCHANGED <<registrations, subscriptions, subs>>
       ELSE /\ unsubscribeAll(server)
            /\ registrations' = [registrations EXCEPT ![channel] = NoHandler]
            /\ thrown' = Undefined

\* unregisterProxy(channel, transport)
unregisterProxy(channel) ==
    /\ listeners' = [listeners EXCEPT ![channel] = {}]
    /\ LET server == registrations[channel] IN
       IF server = NoHandler
       THEN /\ thrown' = Err("Error", "No proxy is registered on channel " \o channel)
            /\ UNCHANGED <<registrations, subscriptions, subs>>
       ELSE /\ unsubscribeAll(server)
            /\ registrations' = [registrations EXCEPT ![channel] = NoHandler]
            /\ thrown' = Undefined

\* a call of fn, a function registerProxy returned: () => unregisterProxy(channel,
\* transport), which holds the channel and not the registration that returned it
UnregisterFn(fn) ==
    /\ fn \in unregisterFns
    /\ unregisterProxy(fn[1])
    /\ UNCHANGED <<destroyedListeners, alive, calls, replies, pushes, unregisterFns>>

\* a call of a function registerProxy returned for channel
Unregister(channel) ==
    \E fn \in unregisterFns : fn[1] = channel /\ UnregisterFn(fn)

(* --------------------------- ProxyServerHandler ------------------------ *)

\* the state a request handler reads and writes
Heap ==
    [subscriptions |-> subscriptions, subs |-> subs, pushes |-> pushes,
     destroyedListeners |-> destroyedListeners]

\* sender.send(subscriptionId, message) for each of messages, in order
Send(p, sender, subscriptionId, messages) ==
    [p EXCEPT ![sender][subscriptionId] = @ \o messages]

\* the three observers handleSubscribe passes to obs.subscribe; sub names the
\* Subscription the message was produced for (bookkeeping, not on the wire)
NextMessage(value, sub) == [type |-> "Next", value |-> Num(value), sub |-> sub]
ErrorMessage(error, sub) == [type |-> "Error", error |-> ErrioStringify(error), sub |-> sub]
CompleteMessage(sub) == [type |-> "Complete", sub |-> sub]

\* a complete observer that also runs after the error observer
SyncMessagesThenComplete(obs, sub) ==
    IF obs.timing # "sync" THEN <<>>
    ELSE [i \in 1..Len(obs.values) |-> NextMessage(obs.values[i], sub)]
         \o (IF obs.end = "error" THEN <<ErrorMessage(obs.err, sub)>> ELSE <<>>)
         \o <<CompleteMessage(sub)>>

\* what a subscriber of obs is sent before obs.subscribe returns
SyncMessages(obs, sub) ==
    IF obs.timing # "sync" THEN <<>>
    ELSE [i \in 1..Len(obs.values) |-> NextMessage(obs.values[i], sub)]
         \o (CASE obs.end = "complete" -> <<CompleteMessage(sub)>>
               [] obs.end = "error" -> <<ErrorMessage(obs.err, sub)>>
               [] OTHER -> <<>>)

\* the Subscription obs.subscribe returns: closed once the stream has ended
\* or unsubscribe() was called; emitted counts the timer values delivered
NewSubscription(obs, server, sender, subscriptionId) ==
    [closed |-> (obs.timing = "sync" /\ obs.end # "never"), emitted |-> 0, obs |-> obs,
     server |-> server, sender |-> sender, subscriptionId |-> subscriptionId]

handleGet(request) == Return(TargetGet(request.propKey))

handleApply(request) ==
    LET func == TargetGet(request.propKey) IN
    IF ~isFunction(func)
    THEN Throw(Err("Error", "Property [" \o request.propKey \o "] is not a function"))
    ELSE Call(func, ThisUndefined, request.args)

\* handleSubscribe without the check of this.subscriptions[subscriptionId]
handleSubscribeOverwrite(heap, server, request, sender) ==
    LET subscriptionId == request.subscriptionId
        obs == TargetGet(request.propKey)
        sub == Len(heap.subs) + 1
    IN  IF ~isObservable(obs)
        THEN [outcome |-> Throw(Err("Error", "Property [" \o request.propKey
                                             \o "] is not an observable")),
              heap |-> heap]
        ELSE [outcome |-> Return(Undefined),
              heap |->
                [subscriptions |->
                    [heap.subscriptions EXCEPT ![server] =
                        [id \in DOMAIN @ \cup {subscriptionId} |->
                            IF id = subscriptionId THEN sub ELSE @[id]]],
                 subs |-> Append(heap.subs,
                                 NewSubscription(obs, server, sender, subscriptionId)),
                 pushes |-> Send(heap.pushes, sender, subscriptionId,
                                 SyncMessages(obs, sub)),
                 destroyedListeners |->
                    [heap.destroyedListeners EXCEPT ![sender] =
                        @ \cup {<<server, subscriptionId>>}]]]

handleSubscribe(heap, server, request, sender) ==
    LET subscriptionId == request.subscriptionId
        obs == TargetGet(request.propKey)
        sub == Len(heap.subs) + 1
    IN  IF subscriptionId \in DOMAIN heap.subscriptions[server]
        THEN [outcome |-> Throw(Err("Error", "A subscription with Id [" \o subscriptionId
                                             \o "] already exists")),
              heap |-> heap]
        ELSE IF ~isObservable(obs)
        THEN [outcome |-> Throw(Err("Error", "Property [" \o request.propKey
                                             \o "] is not an observable")),
              heap |-> heap]
        ELSE [outcome |-> Return(Undefined),
              heap |->
                [subscriptions |->
                    [heap.subscriptions EXCEPT ![server] =
                        [id \in DOMAIN @ \cup {subscriptionId} |->
                            IF id = subscriptionId THEN sub ELSE @[id]]],
                 subs |-> Append(heap.subs,
                                 NewSubscription(obs, server, sender, subscriptionId)),
                 pushes |-> Send(heap.pushes, sender, subscriptionId,
                                 SyncMessages(obs, sub)),
                 destroyedListeners |->
                    [heap.destroyedListeners EXCEPT ![sender] =
                        @ \cup {<<server, subscriptionId>>}]]]

\* doUnsubscribe that drops the table entry without unsubscribing
doUnsubscribeForget(heap, server, subscriptionId) ==
    IF subscriptionId \in DOMAIN heap.subscriptions[server]
    THEN [heap EXCEPT
            !.subscriptions[server] =
                [id \in DOMAIN @ \ {subscriptionId} |-> @[id]]]
    ELSE heap

doUnsubscribe(heap, server, subscriptionId) ==
    IF subscriptionId \in DOMAIN heap.subscriptions[server]
    THEN [heap EXCEPT
            !.subs = Unsubscribed(@, {heap.subscriptions[server][subscriptionId]}),
            !.subscriptions[server] =
                [id \in DOMAIN @ \ {subscriptionId} |-> @[id]]]
    ELSE heap

\* handleUnsubscribe that calls doUnsubscribe without looking the id up
handleUnsubscribeQuiet(heap, server, request) ==
    [outcome |-> Return(Undefined),
     heap |-> doUnsubscribe(heap, server, request.subscriptionId)]

handleUnsubscribe(heap, server, request) ==
    LET subscriptionId == request.subscriptionId IN
    IF subscriptionId \notin DOMAIN heap.subscriptions[server]
    THEN [outcome |-> Throw(Err("Error", "Subscription with Id [" \o subscriptionId
                                         \o "] does not exist")),
          heap |-> heap]
    ELSE [outcome |-> Return(Undefined),
          heap |-> doUnsubscribe(heap, server, subscriptionId)]

\* async handleRequest(request, sender): the promise it returns and the
\* state it leaves
handleRequest(heap, server, request, sender) ==
    LET r == CASE request.type = "Get" -> [outcome |-> handleGet(request), heap |-> heap]
               [] request.type = "Apply" ->
                    [outcome |-> handleApply(request), heap |-> heap]
               [] request.type = "Subscribe" ->
                    handleSubscribe(heap, server, request, sender)
               [] request.type = "Unsubscribe" ->
                    handleUnsubscribe(heap, server, request)
               [] OTHER ->
                    [outcome |-> Throw(Err("Error", "Unhandled RequestType ["
                                                    \o request.type \o "]")),
                     heap |-> heap]
    IN  [promise |-> AsyncResult(r.outcome), heap |-> r.heap]

(* ------------------------- the transport listener ---------------------- *)

\* a listener that answers a rejection as it answers a result
ReplyMessageResultOnly(sender, promise) ==
    [type |-> "Result", result |-> promise.v, to |-> sender]

\* the .then and .catch callbacks of the listener registerProxy installs:
\* the message sent for a settled promise
ReplyMessage(sender, promise) ==
    IF promise.state = "resolved"
    THEN [type |-> "Result", result |-> promise.v, to |-> sender]
    ELSE [type |-> "Error", error |-> ErrioStringify(promise.v), to |-> sender]

\* a listener whose .catch also runs after its .then has sent the Result
ReplyThenCatch(reps, sender, correlationId, promise) ==
    [reps EXCEPT ![correlationId] =
        @ \o <<[type |-> "Result", result |-> promise.v, to |-> sender],
               [type |-> "Error", error |-> promise.v, to |-> sender]>>]

\* a listener that holds a reply back until every earlier request is answered
ReplyInOrder(reps, sender, correlationId, promise) ==
    IF \A earlier \in 1..(correlationId - 1) : reps[earlier] # <<>>
    THEN [reps EXCEPT ![correlationId] = Append(@, ReplyMessage(sender, promise))]
    ELSE reps

\* sender.send(correlationId, message)
Reply(reps, sender, correlationId, promise) ==
    [reps EXCEPT ![correlationId] = Append(@, ReplyMessage(sender, promise))]

\* a request from sender arrives on channel: every listener of the channel
\* runs handleRequest, and a promise that is already settled is answered
Deliver(channel, sender, request) ==
    /\ alive[sender]
    /\ LET correlationId == Len(calls) + 1 IN
       IF listeners[channel] = {}
       THEN /\ calls' = Append(calls, [request |-> request, sender |-> sender,
                                       channel |-> channel, server |-> NoHandler,
                                       promise |-> Undefined])
            /\ replies' = Append(replies, <<>>)
            /\ UNCHANGED <<subscriptions, subs, pushes, destroyedListeners>>
       ELSE \E server \in listeners[channel] :
            LET r == handleRequest(Heap, server, request, sender) IN
            /\ calls' = Append(calls, [request |-> request, sender |-> sender,
                                       channel |-> channel, server |-> server,
                                       promise |-> r.promise])
            /\ replies' = IF r.promise.state = "pending"
                          THEN Append(replies, <<>>)
                          ELSE Reply(Append(replies, <<>>), sender, correlationId,
                                     r.promise)
            /\ subscriptions' = r.heap.subscriptions
            /\ subs' = r.heap.subs
            /\ pushes' = r.heap.pushes
            /\ destroyedListeners' = r.heap.destroyedListeners
    /\ thrown' = Undefined
    /\ UNCHANGED <<registrations, listeners, alive, unregisterFns>>

\* the timer of a pending respondAfter promise fires: the promise resolves
\* and the listener's .then callback sends the reply
Settle(correlationId) ==
    /\ correlationId \in 1..Len(calls)
    /\ calls[correlationId].server # NoHandler
    /\ calls[correlationId].promise.state = "pending"
    /\ LET promise == [calls[correlationId].promise EXCEPT !.state = "resolved"] IN
       /\ calls' = [calls EXCEPT ![correlationId].promise = promise]
       /\ replies' = Reply(replies, calls[correlationId].sender, correlationId, promise)
    /\ thrown' = Undefined
    /\ UNCHANGED <<registrations, listeners, subscriptions, subs, destroyedListeners,
                   alive, pushes, unregisterFns>>

\* the timer of an interval() subscription fires: its next observer sends Next
Tick(sub) ==
    /\ sub \in 1..Len(subs)
    /\ ~subs[sub].closed
    /\ subs[sub].obs.timing = "timer"
    /\ subs[sub].emitted < Len(subs[sub].obs.values)
    /\ subs' = [subs EXCEPT ![sub].emitted = @ + 1]
    /\ pushes' = Send(pushes, subs[sub].sender, subs[sub].subscriptionId,
                      <<NextMessage(subs[sub].obs.values[subs[sub].emitted + 1], sub)>>)
    /\ thrown' = Undefined
    /\ UNCHANGED <<registrations, listeners, subscriptions, destroyedListeners, alive,
                   calls, replies, unregisterFns>>

\* a sender whose 'destroyed' listeners were never attached
RunDestroyedNothing(heap, pending) == heap

RECURSIVE RunDestroyed(_, _)
\* the once('destroyed') listeners of a sender, each calling doUnsubscribe
RunDestroyed(heap, pending) ==
    IF pending = {} THEN heap
    ELSE LET l == CHOOSE l \in pending : TRUE IN
         RunDestroyed(doUnsubscribe(heap, l[1], l[2]), pending \ {l})

\* sender emits 'destroyed'
Destroyed(sender) ==
    /\ alive[sender]
    /\ alive' = [alive EXCEPT ![sender] = FALSE]
    /\ LET heap == RunDestroyed(Heap, destroyedListeners[sender]) IN
       /\ subscriptions' = heap.subscriptions
       /\ subs' = heap.subs
    /\ destroyedListeners' = [destroyedListeners EXCEPT ![sender] = {}]
    /\ thrown' = Undefined
    /\ UNCHANGED <<registrations, listeners, calls, replies, pushes, unregisterFns>>

\* one step of the host's event loop, for at most maxRequests requests drawn
\* from requests, sent by senders to channels, and at most maxHandlers
\* registrations
Step(channels, senders, requests, maxRequests, maxHandlers) ==
    \/ \E channel \in channels :
          /\ registrations[channel] = NoHandler => Len(subscriptions) < maxHandlers
          /\ Register(channel)
    \/ \E channel \in channels : Unregister(channel)
    \/ \E channel \in channels, sender \in senders, request \in requests :
          Len(calls) < maxRequests /\ Deliver(channel, sender, request)
    \/ \E correlationId \in 1..Len(calls) : Settle(correlationId)
    \/ \E sub \in 1..Len(subs) : Tick(sub)
    \/ \E sender \in senders : Destroyed(sender)

Next == Step(Channels, Senders, Requests, MaxRequests, MaxHandlers)

Spec == Init /\ [][Next]_vars

\* A timer-backed member of each kind, so that a pending reply and a running
\* stream are part of every traffic mix below
Background ==
    {ApplyRequest("respondAfter", <<200>>), SubscribeRequest("observableHot", <<>>, "x")}

\* Get and Apply traffic of one sender on one channel
NextCalls ==
    Step({"c1"}, {"A"}, GetRequests \cup ApplyRequests \cup Background,
         MaxCallRequests, MaxHandlers)
SpecCalls == Init /\ [][NextCalls]_vars

\* every kind of Subscribe, and Unsubscribe, of one sender on one channel, on
\* one registration
NextStreams ==
    Step({"c1"}, {"A"}, SubscribeRequests \cup UnsubscribeRequests \cup Background,
         MaxStreamRequests, MaxStreamHandlers)
SpecStreams == Init /\ [][NextStreams]_vars

\* running streams under two ids, opened and closed by one sender, on one
\* registration
NextHot ==
    Step({"c1"}, {"A"},
         {SubscribeRequest("observableHot", <<>>, id) : id \in SubIds}
            \cup {UnsubscribeRequest("x")} \cup Background,
         MaxHotRequests, MaxStreamHandlers)
SpecHot == Init /\ [][NextHot]_vars

\* two channels, registered, unregistered and registered again, with a
\* pending reply and a running stream
NextChannels == Step(Channels, {"A"}, Background, MaxChannelRequests, MaxHandlers)
SpecChannels == Init /\ [][NextChannels]_vars

\* one subscription id used again after its stream ended or was unsubscribed
NextReuse ==
    Step({"c1"}, {"A"},
         {SubscribeRequest("observableProp", <<>>, "x"), UnsubscribeRequest("x")}
             \cup Background,
         MaxReuseRequests, MaxStreamHandlers)
SpecReuse == Init /\ [][NextReuse]_vars

\* two channels, with as many registrations as there are channels, and the
\* same subscription id subscribed on both: c1 carries the Subscribe and
\* Unsubscribe traffic, c2 the pending reply and the running stream
NextPair ==
    \/ Step({"c1"}, {"A"},
            {SubscribeRequest("observableHot", <<>>, "x"), UnsubscribeRequest("x")},
            MaxPairRequests, Cardinality(Channels))
    \/ Step({"c2"}, {"A"}, Background, MaxPairRequests, Cardinality(Channels))
SpecPair == Init /\ [][NextPair]_vars

\* two senders that use the same subscription id on one channel
NextSenders ==
    Step({"c1"}, Senders, {UnsubscribeRequest("x")} \cup Background,
         MaxSenderRequests, MaxStreamHandlers)
SpecSenders == Init /\ [][NextSenders]_vars

(* ------------------------------ properties ----------------------------- *)

\* request correlationId reached a listener
Handled(correlationId) == calls[correlationId].server # NoHandler

\* the promise handleRequest returned for it has settled
Settled(correlationId) ==
    Handled(correlationId) /\ calls[correlationId].promise.state # "pending"

IsCall(correlationId) == calls[correlationId].request.type \in {"Get", "Apply"}

\* the messages sent for Subscription sub, in the order they were sent
MessagesOf(sub) ==
    SelectSeq(pushes[subs[sub].sender][subs[sub].subscriptionId],
              LAMBDA m : m.sub = sub)

\* C1: a Get or Apply that reached a listener has no reply while the target
\* member is pending and, once the member has settled, exactly one reply at
\* its own correlation id, sent to its sender: a Result carrying the resolved
\* value if it resolved, an Error if it threw or rejected. No address ever
\* holds two replies, and every address that holds a reply is a correlation id.
C1_ExactlyOneReply ==
    /\ Len(replies) = Len(calls)
    /\ \A correlationId \in 1..Len(calls) :
        /\ Len(replies[correlationId]) <= 1
        /\ (IsCall(correlationId) /\ Handled(correlationId)) =>
            LET promise == calls[correlationId].promise IN
            /\ promise.state = "pending" => replies[correlationId] = <<>>
            /\ promise.state # "pending" =>
                /\ Len(replies[correlationId]) = 1
                /\ replies[correlationId][1].to = calls[correlationId].sender
                /\ replies[correlationId][1].type =
                      (IF promise.state = "resolved" THEN "Result" ELSE "Error")
                /\ promise.state = "resolved" =>
                      replies[correlationId][1].result = promise.v

\* two requests answered, one with a Result after its member was pending, the
\* other with an Error
C1_Witness ==
    \E j, l \in 1..Len(calls) :
        /\ calls[j].request.propKey = "respondAfter"
        /\ Settled(j)
        /\ replies[j] = <<[type |-> "Result", result |-> Undefined, to |-> "A"]>>
        /\ IsCall(l) /\ Settled(l)
        /\ replies[l][1].type = "Error"

\* everything but thrown
state == <<registrations, listeners, subscriptions, subs, destroyedListeners, alive,
           calls, replies, pushes, unregisterFns>>

DuplicateRegistration(channel) ==
    Err("Error", "Proxy object has already been registered on channel " \o channel)

\* C2: registerProxy on a channel that has a registration throws the
\* duplicate-registration error and changes nothing: the registration table,
\* the listeners, every subscription table and Subscription, the listeners for
\* 'destroyed' and the messages sent are as before, and the listener on the
\* channel is still the one of the registration that was there.
C2_DuplicateRegistrationFails ==
    [][\A channel \in Channels :
        (registrations[channel] # NoHandler /\ Register(channel)) =>
            /\ thrown' = DuplicateRegistration(channel)
            /\ UNCHANGED state
            /\ listeners'[channel] = {registrations[channel]}]_vars

\* a second registerProxy on c1 has just failed while the first registration
\* holds a running subscription
C2_Witness ==
    /\ thrown = DuplicateRegistration("c1")
    /\ registrations["c1"] # NoHandler
    /\ \E id \in DOMAIN subscriptions[registrations["c1"]] :
          ~subs[subscriptions[registrations["c1"]][id]].closed

\* C3: calling the unregister function of a registered channel removes the
\* channel's listener, calls unsubscribe() on every Subscription in the
\* handler's table, empties the table and clears the registration entry.
\* From then on no message is sent for any Subscription of that handler, the
\* handler handles no request, and a request arriving on a channel with no
\* registration reaches no handler and gets no reply.
C3_UnregisterCancels ==
    [][/\ \A channel \in Channels :
            (registrations[channel] # NoHandler /\ Unregister(channel)) =>
                LET server == registrations[channel] IN
                /\ listeners'[channel] = {}
                /\ registrations'[channel] = NoHandler
                /\ DOMAIN subscriptions'[server] = {}
                /\ \A id \in DOMAIN subscriptions[server] :
                      subs'[subscriptions[server][id]].closed
                /\ thrown' = Undefined
       /\ \A server \in Handlers :
            (\A channel \in Channels : registrations[channel] # server) =>
                /\ \A sub \in 1..Len(subs) :
                      subs[sub].server = server => MessagesOf(sub)' = MessagesOf(sub)
                /\ \A correlationId \in (Len(calls) + 1)..Len(calls') :
                      calls'[correlationId].server # server
                /\ DOMAIN subscriptions'[server] = {}
       /\ \A correlationId \in (Len(calls) + 1)..Len(calls') :
            registrations[calls'[correlationId].channel] = NoHandler =>
                /\ calls'[correlationId].server = NoHandler
                /\ replies'[correlationId] = <<>>]_vars

\* c1 was unregistered while a stream that had emitted once was running; a
\* request that arrived afterwards was not handled
C3_Witness ==
    /\ registrations["c1"] = NoHandler
    /\ alive["A"]
    /\ Len(calls) = 2
    /\ calls[1].request = SubscribeRequest("observableHot", <<>>, "x")
    /\ Handled(1)
    /\ subs[1].closed /\ subs[1].emitted = 1
    /\ Len(MessagesOf(1)) = 1
    /\ calls[2].channel = "c1" /\ ~Handled(2) /\ replies[2] = <<>>

NotRegistered(channel) == Err("Error", "No proxy is registered on channel " \o channel)

\* C4: calling an unregister function while its channel has no registration
\* throws the not-registered error, calls unsubscribe() on no Subscription and
\* changes no subscription table, registration or listener.
C4_UnregisterNotRegistered ==
    [][\A channel \in Channels :
        (registrations[channel] = NoHandler /\ Unregister(channel)) =>
            /\ thrown' = NotRegistered(channel)
            /\ UNCHANGED state]_vars

\* the unregister function of c1 was called a second time while c2 holds a
\* running subscription
C4_Witness ==
    /\ thrown = NotRegistered("c1")
    /\ registrations["c1"] = NoHandler
    /\ Len(subscriptions) = 2
    /\ registrations["c2"] # NoHandler
    /\ \E id \in DOMAIN subscriptions[registrations["c2"]] :
          ~subs[subscriptions[registrations["c2"]][id]].closed

\* C5: an Apply of a callable member is answered as a direct call on the
\* target is: the member runs with the target as its receiver, so it settles
\* the same way with the same value (returnStringMember with "a string").
C5_ReceiverIsTarget ==
    \A correlationId \in 1..Len(calls) :
        LET request == calls[correlationId].request
            func == TargetGet(request.propKey)
            direct == AsyncResult(Call(func, ThisTarget, request.args))
        IN  (request.type = "Apply" /\ Handled(correlationId) /\ isFunction(func)) =>
                /\ (calls[correlationId].promise.state = "rejected")
                        = (direct.state = "rejected")
                /\ calls[correlationId].promise.v = direct.v

\* C6: an Apply of a member that is absent or not callable is answered with
\* one Error whose message is "Remote property [<propKey>] is not a function".
C6_NotAFunctionMessage ==
    \A correlationId \in 1..Len(calls) :
        LET request == calls[correlationId].request IN
        (request.type = "Apply" /\ Handled(correlationId)
            /\ ~isFunction(TargetGet(request.propKey))) =>
                /\ Len(replies[correlationId]) = 1
                /\ replies[correlationId][1].type = "Error"
                /\ replies[correlationId][1].error.message =
                      "Remote property [" \o request.propKey \o "] is not a function"

\* C7: a Get or Apply whose member throws, or returns a promise that rejects,
\* is answered with exactly one Error carrying the error's message ("an error"
\* for throwErrorSync, "a rejection" for throwErrorAsync) and with no Result;
\* and handling a request never removes the channel's listener or registration,
\* so a request that arrives while the channel has a listener is handled.
C7_FailuresBecomeErrorReplies ==
    /\ [](\A correlationId \in 1..Len(calls) :
            LET request == calls[correlationId].request
                reply == replies[correlationId]
            IN  (IsCall(correlationId) /\ Handled(correlationId)) =>
                /\ calls[correlationId].promise.state = "rejected" =>
                    /\ Len(reply) = 1
                    /\ reply[1].type = "Error"
                    /\ reply[1].error.message = calls[correlationId].promise.v.message
                /\ (request.type = "Apply" /\ request.propKey = "throwErrorSync") =>
                    reply = <<[type |-> "Error", to |-> calls[correlationId].sender,
                               error |-> [k |-> "json", name |-> "Error",
                                          message |-> "an error"]]>>
                /\ (request.type = "Apply" /\ request.propKey = "throwErrorAsync") =>
                    reply = <<[type |-> "Error", to |-> calls[correlationId].sender,
                               error |-> [k |-> "json", name |-> "Error",
                                          message |-> "a rejection"]]>>)
    /\ [][\A correlationId \in (Len(calls) + 1)..Len(calls') :
            /\ listeners' = listeners
            /\ registrations' = registrations
            /\ listeners[calls'[correlationId].channel] # {} =>
                  calls'[correlationId].server \in listeners[calls'[correlationId].channel]]_vars

\* a synchronous throw was answered with its Error, and the request after it,
\* whose member rejected, was handled and answered with its Error
C7_Witness ==
    /\ Len(calls) = 2
    /\ calls[1].request = ApplyRequest("throwErrorSync", <<>>)
    /\ Handled(1) /\ replies[1][1].error.message = "an error"
    /\ calls[2].request = ApplyRequest("throwErrorAsync", <<>>)
    /\ Handled(2) /\ replies[2][1].error.message = "a rejection"

\* the Next messages among messages
NextsOf(messages) == SelectSeq(messages, LAMBDA m : m.type = "Next")

\* C8: the messages sent for a Subscription are one Next per value the stream
\* has emitted, in emission order and before anything else, followed by at
\* most one more message: Complete if the stream completed, Error (with the
\* stream's error) if it errored. of(1, 2, 3) yields Next(1), Next(2), Next(3),
\* Complete; a stream that errors never yields Complete.
C8_StreamFidelity ==
    \A sub \in 1..Len(subs) :
        LET m == MessagesOf(sub)
            obs == subs[sub].obs
            n == Len(NextsOf(m))
        IN  /\ n <= Len(obs.values)
            /\ \A j \in 1..n :
                  m[j] = [type |-> "Next", sub |-> sub,
                          value |-> [k |-> "number", v |-> obs.values[j]]]
            /\ Len(m) <= n + 1
            /\ Len(m) = n + 1 =>
                /\ n = Len(obs.values)
                /\ obs.end \in {"complete", "error"}
                /\ obs.end = "complete" => m[n + 1].type = "Complete"
                /\ obs.end = "error" =>
                    /\ m[n + 1].type = "Error"
                    /\ m[n + 1].error.message = obs.err.message
            /\ obs.timing = "sync" => Len(m) = Len(obs.values) + 1
            /\ obs.timing = "timer" => n = subs[sub].emitted
            /\ obs.end = "error" => \A j \in 1..Len(m) : m[j].type # "Complete"
            /\ (obs.values = <<1, 2, 3>> /\ obs.end = "complete") =>
                  <<m[1].value.v, m[2].value.v, m[3].value.v, m[4].type>>
                      = <<1, 2, 3, "Complete">>

\* observableProp was drained to its Complete and observableError gave its
\* Error
C8_Witness ==
    /\ Len(subs) = 2
    /\ subs[1].obs.values = <<1, 2, 3>> /\ Len(MessagesOf(1)) = 4
    /\ subs[2].obs.end = "error" /\ Len(MessagesOf(2)) = 1
    /\ MessagesOf(2)[1].error.message = "error on stream"

\* C9: a Subscribe that carries args calls the member with them and
\* subscribes to what the call returns: makeObservable with (1, 2) is answered
\* with a Result, unless its subscriptionId is already in the table, and a
\* Subscription to of(1, 2) exists under its subscriptionId.
C9_SubscribeCallsWithArgs ==
    \A correlationId \in 1..Len(calls) :
        LET request == calls[correlationId].request IN
        (request.type = "Subscribe" /\ request.propKey = "makeObservable"
            /\ request.args = <<1, 2>> /\ Handled(correlationId)) =>
                \/ /\ replies[correlationId][1].type = "Result"
                   /\ \E sub \in 1..Len(subs) :
                        /\ subs[sub].subscriptionId = request.subscriptionId
                        /\ subs[sub].obs.values = <<1, 2>>
                \/ /\ replies[correlationId][1].type = "Error"
                   /\ replies[correlationId][1].error.message =
                        "A subscription with Id [" \o request.subscriptionId
                            \o "] already exists"

\* C10: handling an Unsubscribe for an id in the table calls unsubscribe() on
\* its Subscription, removes the id from the table and answers with a Result;
\* every other Subscription and table entry is as before. A Subscription that
\* is closed stays closed and no message is sent for it again, a message is
\* sent at a subscriptionId only in a step that leaves the id in a table, and
\* a running Subscription that is not closed can take its next timer tick.
C10_UnsubscribeStopsStream ==
    /\ [][/\ \A correlationId \in (Len(calls) + 1)..Len(calls') :
                LET request == calls'[correlationId].request
                    server == calls'[correlationId].server
                    id == request.subscriptionId
                IN  (request.type = "Unsubscribe" /\ server # NoHandler
                        /\ id \in DOMAIN subscriptions[server]) =>
                    /\ subs'[subscriptions[server][id]].closed
                    /\ id \notin DOMAIN subscriptions'[server]
                    /\ replies'[correlationId] =
                          <<[type |-> "Result", result |-> Undefined,
                             to |-> calls'[correlationId].sender]>>
                    /\ \A other \in (1..Len(subs)) \ {subscriptions[server][id]} :
                          subs'[other] = subs[other]
                    /\ \A other \in DOMAIN subscriptions[server] \ {id} :
                          /\ other \in DOMAIN subscriptions'[server]
                          /\ subscriptions'[server][other] = subscriptions[server][other]
                    /\ pushes' = pushes
          /\ \A sub \in 1..Len(subs) :
                subs[sub].closed =>
                    /\ subs'[sub].closed
                    /\ MessagesOf(sub)' = MessagesOf(sub)
          /\ \A sender \in Senders, id \in SubIds :
                pushes'[sender][id] # pushes[sender][id] =>
                    \E server \in 1..Len(subscriptions') :
                        id \in DOMAIN subscriptions'[server]]_vars
    /\ [](\A sub \in 1..Len(subs) :
            (~subs[sub].closed /\ subs[sub].obs.timing = "timer"
                /\ subs[sub].emitted < Len(subs[sub].obs.values)) => ENABLED Tick(sub))

\* x was unsubscribed after one value with more to come, and y, opened beside
\* it, is open and has received both of its values
C10_Witness ==
    /\ Len(calls) = 3
    /\ calls[3].request = UnsubscribeRequest("x")
    /\ replies[3] # <<>> /\ replies[3][1].type = "Result"
    /\ Len(subs) = 2
    /\ subs[1].subscriptionId = "x" /\ subs[1].closed /\ subs[1].emitted = 1
    /\ subs[2].subscriptionId = "y" /\ ~subs[2].closed /\ subs[2].emitted = 2
    /\ DOMAIN subscriptions[1] = {"y"}
    /\ alive["A"] /\ registrations["c1"] = 1

(* ------------------------------- claim C11 ----------------------------- *)

\* C11: when the sender that opened a subscription is destroyed while the
\* subscription is open, the handler cancels the Subscription and removes its
\* id from the table, sends no Error and no Complete for it, and sends no
\* Next for it afterwards.
C11_DestroyedCancels ==
    [][/\ \A sender \in Senders :
             Destroyed(sender) =>
                 /\ \A sub \in 1..Len(subs) :
                       (subs[sub].sender = sender /\ ~subs[sub].closed) =>
                           /\ subs[sub].subscriptionId
                                 \in DOMAIN subscriptions[subs[sub].server]
                           /\ subscriptions[subs[sub].server][subs[sub].subscriptionId] = sub
                           /\ subs'[sub].closed
                           /\ subs[sub].subscriptionId
                                 \notin DOMAIN subscriptions'[subs[sub].server]
                 /\ pushes' = pushes
       /\ \A sub \in 1..Len(subs) :
             ~alive[subs[sub].sender] =>
                 /\ subs[sub].closed
                 /\ MessagesOf(sub)' = MessagesOf(sub)]_vars

\* sender A was destroyed while its subscription x was open, after one value
\* with more to come: the Subscription is cancelled, the table of the
\* handler, still registered, is empty, and the one message sent for x is a Next
C11_Witness ==
    /\ ~alive["A"]
    /\ registrations["c1"] = 1
    /\ Len(subs) = 1
    /\ subs[1].sender = "A" /\ subs[1].subscriptionId = "x"
    /\ subs[1].closed /\ subs[1].emitted = 1
    /\ \A k \in 1..Len(calls) : calls[k].request.type # "Unsubscribe"
    /\ DOMAIN subscriptions[1] = {}
    /\ Len(pushes["A"]["x"]) = 1 /\ pushes["A"]["x"][1].type = "Next"

(* ------------------------------- claim C12 ----------------------------- *)

\* C12: for every subscriptionId, whatever the requests, emissions,
\* disconnects and unregistrations, the messages the host sends tagged with
\* the id are zero or more Next followed by at most one Error or Complete:
\* no message tagged with the id follows a terminal message.
C12_NothingAfterTerminal ==
    \A sender \in Senders, id \in SubIds :
        \A j \in 1..Len(pushes[sender][id]) :
            pushes[sender][id][j].type # "Next" => j = Len(pushes[sender][id])

(* ------------------------------- claim C13 ----------------------------- *)

\* an Error or a Complete was sent for the Subscription sub
Terminated(sub) == \E j \in 1..Len(MessagesOf(sub)) : MessagesOf(sub)[j].type # "Next"

\* C13: a stream that completes or errors on its own, during the Subscribe
\* handling included, has its id dropped from the subscription table with
\* the Complete or Error: the table holds only subscriptions that have not
\* terminated, and an Unsubscribe that arrives after the terminal message
\* fails with "Subscription with Id [id] does not exist".
C13_TerminatedDropped ==
    /\ [](\A server \in 1..Len(subscriptions) :
            \A id \in DOMAIN subscriptions[server] :
                ~Terminated(subscriptions[server][id]))
    /\ [][\A correlationId \in (Len(calls) + 1)..Len(calls') :
             LET request == calls'[correlationId].request
                 server == calls'[correlationId].server
                 id == request.subscriptionId
             IN  (/\ request.type = "Unsubscribe" /\ server # NoHandler
                  /\ \E sub \in 1..Len(subs) :
                        /\ subs[sub].server = server /\ subs[sub].subscriptionId = id
                        /\ Terminated(sub)
                  /\ \A sub \in 1..Len(subs) :
                        (subs[sub].server = server /\ subs[sub].subscriptionId = id)
                            => subs[sub].closed) =>
                 replies'[correlationId] =
                     <<[type |-> "Error",
                        error |-> ErrioStringify(Err("Error",
                            "Subscription with Id [" \o id \o "] does not exist")),
                        to |-> calls'[correlationId].sender]>>]_vars

(* ------------------------------- claim C14 ----------------------------- *)

\* C14: once a subscription with some id has been closed on a handler (by
\* Unsubscribe, completion, error or its sender being destroyed), no later
\* Subscribe with the same id opens a subscription on that handler.
C14_ClosedIsTerminal ==
    [][\A new \in (Len(subs) + 1)..Len(subs') :
          ~\E old \in 1..Len(subs) :
              /\ subs[old].closed
              /\ subs[old].server = subs'[new].server
              /\ subs[old].subscriptionId = subs'[new].subscriptionId]_vars

(* ------------------------------- claim C15 ----------------------------- *)

\* C15: a Subscribe whose id is in the handler's subscription table fails
\* with "A subscription with Id [id] already exists", whatever member it
\* names, and leaves the existing subscription as it was: same table entry,
\* not cancelled, no message sent, still delivering its values.
C15_DuplicateSubscribeFails ==
    /\ [][\A correlationId \in (Len(calls) + 1)..Len(calls') :
             LET request == calls'[correlationId].request
                 server == calls'[correlationId].server
                 id == request.subscriptionId
             IN  (request.type = "Subscribe" /\ server # NoHandler
                     /\ id \in DOMAIN subscriptions[server]) =>
                 /\ replies'[correlationId] =
                       <<[type |-> "Error",
                          error |-> ErrioStringify(Err("Error",
                              "A subscription with Id [" \o id \o "] already exists")),
                          to |-> calls'[correlationId].sender]>>
                 /\ subscriptions' = subscriptions
                 /\ subs' = subs
                 /\ pushes' = pushes
                 /\ destroyedListeners' = destroyedListeners]_vars
    /\ [](\A correlationId \in 1..Len(calls), sub \in 1..Len(subs) :
            (/\ calls[correlationId].request.type = "Subscribe"
             /\ replies[correlationId] # <<>>
             /\ replies[correlationId][1].type = "Error"
             /\ subs[sub].server = calls[correlationId].server
             /\ subs[sub].subscriptionId = calls[correlationId].request.subscriptionId
             /\ ~subs[sub].closed /\ subs[sub].obs.timing = "timer"
             /\ subs[sub].emitted < Len(subs[sub].obs.values))
                => ENABLED Tick(sub))

\* while x was open on the running stream, a Subscribe of a member that is
\* no stream, with the same id, was refused; x is still open, under the same
\* entry, and has delivered every value of the run
C15_Witness ==
    /\ Len(calls) = 2
    /\ calls[1].request = SubscribeRequest("observableHot", <<>>, "x")
    /\ calls[2].request = SubscribeRequest("stringMemberSync", <<>>, "x")
    /\ calls[2].server = 1
    /\ replies[2] # <<>> /\ replies[2][1].type = "Error"
    /\ Len(subs) = 1 /\ ~subs[1].closed /\ subs[1].emitted = MaxTicks
    /\ subscriptions[1] = [id \in {"x"} |-> 1]
    /\ Len(pushes["A"]["x"]) = MaxTicks

(* ------------------------------- claim C16 ----------------------------- *)

\* C16: an Unsubscribe whose id is not in the handler's subscription table
\* fails with "Subscription with Id [id] does not exist", reported as an
\* Error reply and not as a Result, and changes neither the table nor any
\* subscription.
C16_UnsubscribeAbsentFails ==
    [][\A correlationId \in (Len(calls) + 1)..Len(calls') :
          LET request == calls'[correlationId].request
              server == calls'[correlationId].server
              id == request.subscriptionId
          IN  (request.type = "Unsubscribe" /\ server # NoHandler
                  /\ id \notin DOMAIN subscriptions[server]) =>
              /\ replies'[correlationId] =
                    <<[type |-> "Error",
                       error |-> ErrioStringify(Err("Error",
                           "Subscription with Id [" \o id \o "] does not exist")),
                       to |-> calls'[correlationId].sender]>>
              /\ subscriptions' = subscriptions
              /\ subs' = subs
              /\ pushes' = pushes
              /\ destroyedListeners' = destroyedListeners]_vars

\* x is open on the running stream and an Unsubscribe of y, which was never
\* subscribed, got an Error reply; x is still open under its entry
C16_Witness ==
    /\ Len(calls) = 2
    /\ calls[1].request = SubscribeRequest("observableHot", <<>>, "x")
    /\ calls[2].request = UnsubscribeRequest("y")
    /\ calls[2].server = 1
    /\ Len(replies[2]) = 1 /\ replies[2][1].type = "Error"
    /\ Len(subs) = 1 /\ ~subs[1].closed
    /\ subscriptions[1] = [id \in {"x"} |-> 1]

(* ------------------------------- claim C17 ----------------------------- *)

\* the Get or Apply correlationId is suspended on a promise of the target
Suspended(correlationId) ==
    /\ Handled(correlationId) /\ IsCall(correlationId)
    /\ calls[correlationId].promise.state = "pending"

\* C17: while a Get or Apply waits for the asynchronous result of a target
\* member, another request arriving on the same channel is handled and
\* answered at once, without waiting for the first to settle: the later
\* request is answered while the earlier one has no reply yet.
C17_NonBlocking ==
    /\ [][\A first \in 1..Len(calls), next \in (Len(calls) + 1)..Len(calls') :
             (Suspended(first) /\ calls'[next].channel = calls[first].channel
                 /\ listeners[calls[first].channel] # {}) =>
                 /\ calls'[next].server # NoHandler
                 /\ (calls'[next].promise.state # "pending" => Len(replies'[next]) = 1)
                 /\ calls'[first] = calls[first]
                 /\ replies'[first] = <<>>]_vars
    /\ [](\A first \in 1..Len(calls) :
            (Suspended(first) /\ alive[calls[first].sender]
                /\ listeners[calls[first].channel] # {}) =>
                ENABLED Deliver(calls[first].channel, calls[first].sender,
                                GetRequest("stringMemberSync")))

\* respondAfter, the first request, is still waiting and has no reply, and
\* the Get sent after it on the same channel has its Result
C17_Witness ==
    /\ Len(calls) = 2
    /\ calls[1].request = ApplyRequest("respondAfter", <<200>>)
    /\ Suspended(1) /\ replies[1] = <<>>
    /\ calls[2].request = GetRequest("stringMemberSync")
    /\ calls[2].channel = calls[1].channel /\ calls[2].server = calls[1].server
    /\ Len(replies[2]) = 1 /\ replies[2][1].type = "Result"

(* ------------------------------- claim C18 ----------------------------- *)

\* the subscription table of handler and the Subscriptions opened on it are
\* the same before and after the step
HandlerUntouched(handler) ==
    /\ subscriptions'[handler] = subscriptions[handler]
    /\ \A sub \in 1..Len(subs) : subs[sub].server = handler => subs'[sub] = subs[sub]

C19_StaleUnregisterHarmless ==
    [][\A fn \in unregisterFns :
          (UnregisterFn(fn) /\ registrations[fn[1]] \notin {NoHandler, fn[2]}) =>
              /\ registrations'[fn[1]] = registrations[fn[1]]
              /\ listeners'[fn[1]] = listeners[fn[1]]
              /\ HandlerUntouched(registrations[fn[1]])]_vars

(* ------------------------------- claim C20 ----------------------------- *)

\* C20: a sender being destroyed closes only subscriptions that this sender
\* opened.  After A opened x and closed it with Unsubscribe, and B opened x
\* on the same handler, A being destroyed neither cancels B's subscription
\* nor removes B's table entry.
C20_DestroyedClosesOwnOnly ==
    [][\A sender \in Senders :
          Destroyed(sender) =>
              \A sub \in 1..Len(subs) :
                  subs[sub].sender # sender =>
                      /\ subs'[sub] = subs[sub]
                      /\ \A id \in DOMAIN subscriptions[subs[sub].server] :
                            subscriptions[subs[sub].server][id] = sub =>
                                /\ id \in DOMAIN subscriptions'[subs[sub].server]
                                /\ subscriptions'[subs[sub].server][id] = sub]_vars

====
